---- MODULE Spec2Model ----
(***************************************************************************)
(* simple_log_factory: log_factory, its helpers _get_handlers,             *)
(* _attach_handlers and _check_unique_handler_types, and the               *)
(* LogContextGenerators wrapper, over a model of the logging registry      *)
(* (named loggers, their handler list objects, handlers, formatters).      *)
(*                                                                         *)
(* Strings are sequences of one-character strings, so that strip() and     *)
(* upper() are computed.  Objects whose identity matters (handlers,        *)
(* formatters, handler lists) live in heaps indexed by reference.          *)
(***************************************************************************)
EXTENDS Integers, Sequences, FiniteSets, TLC

\* ------------------------------------------------------------------ bounds
MaxHandlers == 2     \* handler objects ever constructed
MaxCustom == 2       \* length of a custom_handlers list / a handlers argument
MaxContexts == 2     \* LogContexts minted by the generator

\* -------------------------------------------------------- logging levels
NOTSET == 0
DEBUG == 10
INFO == 20
WARNING == 30
ERROR == 40

\* ---------------------------------------------------------------- strings
Whitespace == {" ", "\t"}

RECURSIVE LStrip(_)
LStrip(s) == IF s # <<>> /\ Head(s) \in Whitespace THEN LStrip(Tail(s)) ELSE s

RECURSIVE RStrip(_)
RStrip(s) ==
  IF s # <<>> /\ s[Len(s)] \in Whitespace THEN RStrip(SubSeq(s, 1, Len(s) - 1)) ELSE s

\* str.strip()
Strip(s) == RStrip(LStrip(s))

UpperChar(c) ==
  CASE c = "d" -> "D" [] c = "e" -> "E" [] c = "b" -> "B" [] c = "u" -> "U"
    [] c = "g" -> "G" [] c = "w" -> "W" [] c = "a" -> "A" [] c = "r" -> "R"
    [] c = "n" -> "N" [] c = "i" -> "I" [] c = "f" -> "F" [] c = "o" -> "O"
    [] OTHER -> c

\* str.upper()
Upper(s) == [i \in DOMAIN s |-> UpperChar(s[i])]

\* None, where a string is optional
NoneStr == <<"<None>">>

\* truthiness of an Optional[str]: None and "" are falsy
Truthy(s) == s # NoneStr /\ s # <<>>

\* ------------------------------------------------------ argument values
\* A dynamically typed argument: None, an int or a str.
PyNone == [kind |-> "none", n |-> 0, s |-> <<>>]
PyInt(i) == [kind |-> "int", n |-> i, s |-> <<>>]
PyStr(str) == [kind |-> "str", n |-> 0, s |-> str]

NameA == <<"a">>
NameAB == <<"a", ".", "b">>
RootName == <<"r", "o", "o", "t">>
NoLogger == <<"<no logger>">>

ValidNameInputs == {PyStr(NameA), PyStr(NameAB)}
InvalidNameInputs == {PyNone, PyInt(123), PyStr(<<>>), PyStr(<<" ", "\t", " ">>)}
NameInputs == ValidNameInputs \cup InvalidNameInputs

LogFileInputs == {NoneStr, <<>>, <<"a", ".", "l", "o", "g">>}
TimeFormatInputs == {NoneStr, <<>>, <<"%", "Y">>}
LevelInputs == {PyInt(DEBUG), PyStr(<<" ", "w", "a", "r", "n", "i", "n", "g">>)}

DefaultLogFormat == <<"%(asctime)s - %(name)s - %(levelname)s - %(message)s">>
MessageOnlyFormat == <<"%(message)s">>
TimeOnlyFormat == <<"%", "H", ":", "%", "M", ":", "%", "S">>

\* logging._checkLevel: an int is itself, a level name is looked up
NameToLevel(s) ==
  CASE s = <<"D", "E", "B", "U", "G">> -> DEBUG
    [] s = <<"I", "N", "F", "O">> -> INFO
    [] s = <<"W", "A", "R", "N", "I", "N", "G">> -> WARNING
    [] s = <<"E", "R", "R", "O", "R">> -> ERROR
    [] OTHER -> -1

CheckLevel(lv) == IF lv.kind = "int" THEN lv.n ELSE NameToLevel(lv.s)

\* log_level.strip().upper() if isinstance(log_level, str) else log_level
NormalizeLevel(lv) == IF lv.kind = "str" THEN PyStr(Upper(Strip(lv.s))) ELSE lv

\* ---------------------------------------------------------- handler types
StreamHandler == "StreamHandler"
FileHandler == "FileHandler"
TimedRotatingFileHandler == "TimedRotatingFileHandler"
HandlerTypes == {StreamHandler, FileHandler, TimedRotatingFileHandler}

\* the class hierarchy of logging: Timed < BaseRotating < FileHandler < StreamHandler
IsSubclass(t, u) ==
  \/ t = u
  \/ u = StreamHandler
  \/ t = TimedRotatingFileHandler /\ u = FileHandler

\* ------------------------------------------------------------------ state
VARIABLES
  loggers,     \* the registry: logger name -> [level, handlers (the list's items)]
  handlers,    \* heap of handler objects: id -> [type, formatter (0 = None), level]
  formatters,  \* heap of Formatter objects: reference -> [fmt, datefmt]
  last,        \* the call that has just returned: arguments, snapshots, outcome
  gen,         \* LogContextGenerators.logger: the owned logger, NoLogger before __init__
  ctxs,        \* the LogContexts minted: each one's captured kwargs mapping
  lastCall     \* the LogContext callable that has just returned and what it emitted

vars == <<loggers, handlers, formatters, last, gen, ctxs, lastCall>>

\* ------------------------------------------------------------ heap helpers
\* During a call the handler lists are objects of a heap, so that a copy and
\* an alias of a list differ: lg maps a logger to [level, handlers (a list
\* reference)], ls maps a list reference to the list's items.

\* a reference not in use in heap h
NewRef(h) == CHOOSE r \in 1..(Cardinality(DOMAIN h) + 1) : r \notin DOMAIN h

Restrict(f, S) == [x \in (DOMAIN f \cap S) |-> f[x]]

SeqRange(s) == {s[i] : i \in DOMAIN s}

IndexOf(s, x) == CHOOSE i \in DOMAIN s : s[i] = x

LoggerNames == <<RootName, NameA, NameAB>>

\* the heap a call starts from: every logger owns its own list object
HeapLoggers(L) ==
  [n \in DOMAIN L |-> [level |-> L[n].level, handlers |-> IndexOf(LoggerNames, n)]]

HeapLists(L) ==
  [r \in {IndexOf(LoggerNames, n) : n \in DOMAIN L} |-> L[LoggerNames[r]].handlers]

\* the registry read back from the heap a call ends with
FromHeap(lg, ls) ==
  [n \in DOMAIN lg |-> [level |-> lg[n].level, handlers |-> ls[lg[n].handlers]]]

\* the list objects the registry still references
LiveLists(lg) == {lg[l].handlers : l \in DOMAIN lg}

\* ------------------------------------------------- the logger hierarchy
\* str.rfind(".") on s, 1-based, 0 when absent
RECURSIVE RFindDot(_)
RFindDot(s) ==
  IF s = <<>> THEN 0
  ELSE IF s[Len(s)] = "." THEN Len(s) ELSE RFindDot(SubSeq(s, 1, Len(s) - 1))

\* Manager._fixupParents / _fixupChildren: the nearest ancestor in the registry
RECURSIVE NearestAncestor(_, _)
NearestAncestor(lg, s) ==
  LET i == RFindDot(s) IN
  IF i <= 1 THEN RootName
  ELSE LET p == SubSeq(s, 1, i - 1)
       IN IF p \in DOMAIN lg THEN p ELSE NearestAncestor(lg, p)

\* logger.parent; NoLogger is None (the root logger has no parent)
Parent(lg, name) == IF name = RootName THEN NoLogger ELSE NearestAncestor(lg, name)

\* logging.getLogger(name): look up, or create with level NOTSET and no handlers
GetLogger(lg, ls, name) ==
  IF name \in DOMAIN lg THEN [loggers |-> lg, lists |-> ls]
  ELSE LET r == NewRef(ls)
       IN [loggers |-> [n \in DOMAIN lg \cup {name} |->
                          IF n = name THEN [level |-> NOTSET, handlers |-> r] ELSE lg[n]],
           lists |-> [x \in DOMAIN ls \cup {r} |-> IF x = r THEN <<>> ELSE ls[x]]]

\* Logger.addHandler: append to the logger's list object unless already in it
AddHandler(ls, ref, h) ==
  IF h \in SeqRange(ls[ref]) THEN ls ELSE [ls EXCEPT ![ref] = Append(@, h)]

\* ------------------------------------------------------------ _get_handlers
\* GetHandlers with a fault: the rotating handler is chosen by the flag alone
GetHandlersRotateWithoutFile(to_console, log_file, rotate_file_by_day) ==
  (IF to_console THEN <<StreamHandler>> ELSE <<>>)
  \o (IF rotate_file_by_day THEN <<TimedRotatingFileHandler>>
      ELSE IF Truthy(log_file) THEN <<FileHandler>> ELSE <<>>)

\* The types of the handlers built, in order; the caller allocates the objects.
GetHandlers(to_console, log_file, rotate_file_by_day) ==
  (IF to_console THEN <<StreamHandler>> ELSE <<>>)
  \o (IF Truthy(log_file)
      THEN (IF rotate_file_by_day THEN <<TimedRotatingFileHandler>> ELSE <<FileHandler>>)
      ELSE <<>>)

\* a freshly constructed handler: no formatter, level NOTSET
FreshHandler(t) == [type |-> t, formatter |-> 0, level |-> NOTSET]

\* ---------------------------------------------------------- _attach_handlers
\* HandlerListCopy with a fault: handler_list = logger.handlers, an alias
HandlerListAlias(ls, ref) == [lists |-> ls, ref |-> ref]

\* handler_list = list(logger.handlers): a new list object with the same items
HandlerListCopy(ls, ref) ==
  LET r == NewRef(ls)
  IN [lists |-> [x \in DOMAIN ls \cup {r} |-> IF x = r THEN ls[ref] ELSE ls[x]],
      ref |-> r]

\* AttachParentGuard with a fault: the parent is read without the None check
AttachParentGuardMissing(lg, logger) == TRUE

\* if logger.parent is not None
AttachParentGuard(lg, logger) == Parent(lg, logger) # NoLogger

\* TypePresent with a fault: isinstance instead of the exact type
TypePresentIsInstance(t, handler_types) ==
  \E i \in DOMAIN handler_types : IsSubclass(t, handler_types[i])

\* type(handler) in handler_types
TypePresent(t, handler_types) == \E i \in DOMAIN handler_types : handler_types[i] = t

\* ConfigureHandler with a fault: setLevel is forgotten
ConfigureHandlerNoLevel(h, formatter, level) == [h EXCEPT !.formatter = formatter]

\* handler.setFormatter(formatter); handler.setLevel(log_level)
ConfigureHandler(h, formatter, level) ==
  [h EXCEPT !.formatter = formatter, !.level = level]

\* the for loop: st = [lists, handlers]
RECURSIVE AttachLoop(_, _, _, _, _, _, _, _)
AttachLoop(st, ref, hs, i, handler_types, level, formatter, unique) ==
  IF i > Len(hs) THEN st
  ELSE LET h == hs[i]
           next ==
             IF unique /\ TypePresent(st.handlers[h].type, handler_types)
             THEN st
             ELSE [lists |-> AddHandler(st.lists, ref, h),
                   handlers |-> [st.handlers EXCEPT
                                   ![h] = ConfigureHandler(@, formatter, level)]]
       IN AttachLoop(next, ref, hs, i + 1, handler_types, level, formatter, unique)

\* _attach_handlers(logger, handlers, log_level, formatter, unique_handler_types).
\* ok = FALSE is the AttributeError of reading .handlers of a None parent.
AttachHandlers(lg, ls, hd, logger, hs, level, formatter, unique) ==
  LET cp == HandlerListCopy(ls, lg[logger].handlers)
      guard == AttachParentGuard(lg, logger)
      raised == guard /\ Parent(lg, logger) = NoLogger
      ls2 == IF guard /\ ~raised
             THEN [cp.lists EXCEPT ![cp.ref] = @ \o cp.lists[lg[Parent(lg, logger)].handlers]]
             ELSE cp.lists
      handler_types == [i \in DOMAIN ls2[cp.ref] |-> hd[ls2[cp.ref][i]].type]
      done == AttachLoop([lists |-> ls2, handlers |-> hd], lg[logger].handlers,
                         hs, 1, handler_types, level, formatter, unique)
  IN IF raised
     THEN [ok |-> FALSE, lists |-> ls, handlers |-> hd]
     ELSE [ok |-> TRUE, lists |-> Restrict(done.lists, LiveLists(lg)),
           handlers |-> done.handlers]

\* ----------------------------------------------- _check_unique_handler_types
\* logger.parent is not None
CollapseParentGuard(lg, logger) == Parent(lg, logger) # NoLogger

\* HandlerListsEqual with a fault: the lists are compared by length
HandlerListsSameLength(a, b) == Len(a) = Len(b)

\* logger.handlers == logger.parent.handlers: the same handlers in the same order
HandlerListsEqual(a, b) == a = b

\* CheckUniqueHandlerTypes with a fault: the new empty list is bound to the
\* parent's attribute as well (logger.handlers = logger.parent.handlers = [])
CheckUniqueHandlerTypesClearsParent(lg, ls, logger, unique) ==
  LET guard == unique /\ CollapseParentGuard(lg, logger)
      raised == guard /\ Parent(lg, logger) = NoLogger
      clear == guard /\ ~raised
               /\ HandlerListsEqual(ls[lg[logger].handlers],
                                    ls[lg[Parent(lg, logger)].handlers])
      r == NewRef(ls)
      lg2 == [lg EXCEPT ![logger].handlers = r, ![Parent(lg, logger)].handlers = r]
  IN IF raised THEN [ok |-> FALSE, loggers |-> lg, lists |-> ls]
     ELSE IF clear
     THEN [ok |-> TRUE, loggers |-> lg2,
           lists |-> Restrict([x \in DOMAIN ls \cup {r} |-> IF x = r THEN <<>> ELSE ls[x]],
                              LiveLists(lg2))]
     ELSE [ok |-> TRUE, loggers |-> lg, lists |-> ls]

\* _check_unique_handler_types(logger, unique_handler_types)
CheckUniqueHandlerTypes(lg, ls, logger, unique) ==
  LET guard == unique /\ CollapseParentGuard(lg, logger)
      raised == guard /\ Parent(lg, logger) = NoLogger
      clear == guard /\ ~raised
               /\ HandlerListsEqual(ls[lg[logger].handlers],
                                    ls[lg[Parent(lg, logger)].handlers])
      r == NewRef(ls)
      lg2 == [lg EXCEPT ![logger].handlers = r]
  IN IF raised THEN [ok |-> FALSE, loggers |-> lg, lists |-> ls]
     ELSE IF clear
     THEN [ok |-> TRUE, loggers |-> lg2,
           lists |-> Restrict([x \in DOMAIN ls \cup {r} |-> IF x = r THEN <<>> ELSE ls[x]],
                              LiveLists(lg2))]
     ELSE [ok |-> TRUE, loggers |-> lg, lists |-> ls]

\* ---------------------------------------------------------------- log_factory
\* NameIsValid with a fault: the name is not stripped before the emptiness test
NameIsValidNoStrip(log_name) == log_name.kind = "str" /\ log_name.s # <<>>

\* not isinstance(log_name, str) or not log_name.strip()  (negated)
NameIsValid(log_name) == log_name.kind = "str" /\ Strip(log_name.s) # <<>>

\* SelectFormatter with a fault: rotation alone selects the time-only format
SelectFormatterRotateOnly(log_format, log_file, rotate_file_by_day, log_time_format) ==
  IF rotate_file_by_day
  THEN [fmt |-> log_format, datefmt |-> TimeOnlyFormat]
  ELSE IF Truthy(log_time_format)
  THEN [fmt |-> log_format, datefmt |-> log_time_format]
  ELSE [fmt |-> log_format, datefmt |-> NoneStr]

\* the formatter chosen by the if / elif / else; datefmt NoneStr is the default
SelectFormatter(log_format, log_file, rotate_file_by_day, log_time_format) ==
  IF rotate_file_by_day /\ Truthy(log_file)
  THEN [fmt |-> log_format, datefmt |-> TimeOnlyFormat]
  ELSE IF Truthy(log_time_format)
  THEN [fmt |-> log_format, datefmt |-> log_time_format]
  ELSE [fmt |-> log_format, datefmt |-> NoneStr]

\* custom_handlers: None, one handler, or a list of handlers
CustomNone == [kind |-> "none", hs |-> <<>>]
CustomOne(h) == [kind |-> "one", hs |-> <<h>>]
CustomList(hs) == [kind |-> "list", hs |-> hs]

\* if custom_handlers: extend with a list, append a single handler
ExtendWithCustom(built, custom) ==
  IF custom.kind = "none" \/ (custom.kind = "list" /\ custom.hs = <<>>) THEN built
  ELSE IF custom.kind = "list" THEN built \o custom.hs
  ELSE Append(built, custom.hs[1])

BlankLast ==
  [op |-> "none", name |-> PyNone, target |-> NoLogger, unique |-> FALSE,
   result |-> "none", log_file |-> NoneStr, rotate |-> FALSE, time_format |-> NoneStr,
   to_console |-> FALSE, log_level |-> PyNone, level |-> NOTSET,
   handlers |-> <<>>, built |-> <<>>,
   formatter |-> 0, pre |-> <<>>, before |-> <<>>, hasParent |-> FALSE,
   parentBefore |-> <<>>, afterAttach |-> <<>>,
   refBefore |-> 0, refAfterAttach |-> 0, refAfter |-> 0]

\* The body of log_factory on the registry L, the handler heap hd and the
\* formatter heap fm; the result is the state after the call and its record.
LogFactoryBody(L, hd, fm, log_name, log_file, rotate_file_by_day, log_level, to_console, custom_handlers, log_format, log_time_format, unique_handler_types) ==
  IF ~NameIsValid(log_name)
  THEN [loggers |-> L, handlers |-> hd, formatters |-> fm,
        last |-> [BlankLast EXCEPT !.op = "log_factory", !.name = log_name,
                                   !.result = "ValueError",
                                   !.pre = [loggers |-> L, handlers |-> hd,
                                            formatters |-> fm]]]
  ELSE
    LET fref == NewRef(fm)
        fm1 == [x \in DOMAIN fm \cup {fref} |->
                  IF x = fref
                  THEN SelectFormatter(log_format, log_file, rotate_file_by_day,
                                       log_time_format)
                  ELSE fm[x]]
        types == GetHandlers(to_console, log_file, rotate_file_by_day)
        built == [i \in DOMAIN types |-> Len(hd) + i]
        hd1 == hd \o [i \in DOMAIN types |-> FreshHandler(types[i])]
        hs == ExtendWithCustom(built, custom_handlers)
        name == log_name.s
        got == GetLogger(HeapLoggers(L), HeapLists(L), name)
        level == CheckLevel(NormalizeLevel(log_level))
        lg1 == [got.loggers EXCEPT ![name].level = level]
        att == AttachHandlers(lg1, got.lists, hd1, name, hs, level, fref,
                              unique_handler_types)
        col == CheckUniqueHandlerTypes(lg1, att.lists, name, unique_handler_types)
        par == Parent(lg1, name)
        rec == [BlankLast EXCEPT
                  !.op = "log_factory", !.name = log_name, !.target = name,
                  !.unique = unique_handler_types, !.log_file = log_file,
                  !.rotate = rotate_file_by_day, !.time_format = log_time_format,
                  !.to_console = to_console, !.log_level = log_level,
                  !.level = level, !.handlers = hs,
                  !.built = built, !.formatter = fref,
                  !.pre = [loggers |-> L, handlers |-> hd, formatters |-> fm],
                  !.before = got.lists[lg1[name].handlers],
                  !.hasParent = (par # NoLogger),
                  !.parentBefore = IF par = NoLogger THEN <<>>
                                   ELSE got.lists[lg1[par].handlers],
                  !.refBefore = lg1[name].handlers,
                  !.refAfterAttach = lg1[name].handlers]
    IN IF ~att.ok
       THEN [loggers |-> FromHeap(lg1, got.lists), handlers |-> hd1, formatters |-> fm1,
             last |-> [rec EXCEPT !.result = "AttributeError",
                                  !.afterAttach = got.lists[lg1[name].handlers],
                                  !.refAfter = lg1[name].handlers]]
       ELSE IF ~col.ok
       THEN [loggers |-> FromHeap(lg1, att.lists), handlers |-> att.handlers,
             formatters |-> fm1,
             last |-> [rec EXCEPT !.result = "AttributeError",
                                  !.afterAttach = att.lists[lg1[name].handlers],
                                  !.refAfter = lg1[name].handlers]]
       ELSE [loggers |-> FromHeap(col.loggers, col.lists), handlers |-> att.handlers,
             formatters |-> fm1,
             last |-> [rec EXCEPT !.result = "ok",
                                  !.afterAttach = att.lists[lg1[name].handlers],
                                  !.refAfter = col.loggers[name].handlers]]

\* ------------------------------------------------------------ the formatter heap
\* the distinct references of refs other than None, in order of first appearance
RECURSIVE FirstRefs(_, _)
FirstRefs(refs, acc) ==
  IF refs = <<>> THEN acc
  ELSE FirstRefs(Tail(refs),
                 IF Head(refs) = 0 \/ Head(refs) \in SeqRange(acc) THEN acc
                 ELSE Append(acc, Head(refs)))

\* Unreferenced Formatter objects are freed and the others renumbered in order
\* of first appearance: which handlers share a formatter is kept, the numbers
\* carry no meaning.  held is the formatter the caller still holds.
Compact(hd, fm, held) ==
  LET order == FirstRefs([i \in 1..(Len(hd) + 1) |->
                            IF i <= Len(hd) THEN hd[i].formatter ELSE held], <<>>)
      Ren(r) == IF r = 0 THEN 0 ELSE IndexOf(order, r)
  IN [handlers |-> [i \in DOMAIN hd |-> [hd[i] EXCEPT !.formatter = Ren(@)]],
      formatters |-> [k \in DOMAIN order |-> fm[order[k]]],
      held |-> Ren(held)]

\* the state after a call
Commit(r) ==
  LET c == Compact(r.handlers, r.formatters, r.last.formatter)
  IN /\ loggers' = r.loggers
     /\ handlers' = c.handlers
     /\ formatters' = c.formatters
     /\ last' = [r.last EXCEPT !.formatter = c.held]

BlankCall == [ctx |-> 0, method |-> "none", msg |-> "", records |-> <<>>]

\* no call has just returned: the caller is free to make the next one
Idle == last.op = "none" /\ lastCall.method = "none"

SeqsUpTo(S, n) == UNION {[1..k -> S] : k \in 0..n}

\* the custom_handlers arguments of the given kinds over the handlers 1..nh
CustomInputs(kinds, nh) ==
  (IF "none" \in kinds THEN {CustomNone} ELSE {})
  \cup (IF "one" \in kinds THEN {CustomOne(h) : h \in 1..nh} ELSE {})
  \cup (IF "list" \in kinds THEN {CustomList(hs) : hs \in SeqsUpTo(1..nh, MaxCustom)}
        ELSE {})

\* log_factory called with arguments drawn from the sets of dom
LogFactoryOver(dom) ==
  \E log_name \in dom.names, log_file \in dom.files, rotate_file_by_day \in dom.rotates,
     log_level \in dom.levels, to_console \in dom.consoles,
     custom_handlers \in CustomInputs(dom.customs, Len(handlers)),
     log_format \in dom.formats, log_time_format \in dom.times,
     unique_handler_types \in dom.uniques :
    /\ Len(handlers) + Len(GetHandlers(to_console, log_file, rotate_file_by_day))
         <= MaxHandlers
    /\ Commit(LogFactoryBody(loggers, handlers, formatters, log_name, log_file,
                             rotate_file_by_day, log_level, to_console, custom_handlers,
                             log_format, log_time_format, unique_handler_types))

\* the arguments of the calls that exercise attachment and deduplication
DedupInputs ==
  [names |-> ValidNameInputs, files |-> {NoneStr}, rotates |-> {TRUE},
   levels |-> {PyInt(DEBUG)}, consoles |-> BOOLEAN, customs |-> {"none", "one", "list"},
   formats |-> {DefaultLogFormat}, times |-> {NoneStr}, uniques |-> BOOLEAN]

\* the arguments of the calls that exercise validation, formatter and builder
FormatInputs ==
  [names |-> {PyStr(NameA)} \cup InvalidNameInputs, files |-> LogFileInputs,
   rotates |-> BOOLEAN, levels |-> LevelInputs, consoles |-> BOOLEAN,
   customs |-> {"none", "one"}, formats |-> {DefaultLogFormat},
   times |-> TimeFormatInputs, uniques |-> BOOLEAN]

\* the keyword arguments given to LogContextGenerators(...)
GeneratorInputs ==
  [names |-> {PyStr(NameA), PyNone}, files |-> {NoneStr}, rotates |-> {TRUE},
   levels |-> LevelInputs, consoles |-> {TRUE}, customs |-> {"none"},
   formats |-> {DefaultLogFormat}, times |-> {NoneStr}, uniques |-> {FALSE}]

\* log_factory(...) called by the application
LogFactory ==
  /\ Idle
  /\ LogFactoryOver(DedupInputs)
  /\ UNCHANGED <<gen, ctxs, lastCall>>

LogFactoryFormats ==
  /\ Idle
  /\ LogFactoryOver(FormatInputs)
  /\ UNCHANGED <<gen, ctxs, lastCall>>

\* ------------------------------------------------- calls made by the caller
\* the caller constructs a handler to pass as a custom handler
CreateHandler ==
  /\ Idle
  /\ Len(handlers) < MaxHandlers
  /\ \E t \in HandlerTypes : handlers' = Append(handlers, FreshHandler(t))
  /\ UNCHANGED <<loggers, formatters, last, gen, ctxs, lastCall>>

\* the caller moves on: the record of the call that returned is dropped
Resume ==
  /\ ~Idle
  /\ LET c == Compact(handlers, formatters, 0)
     IN /\ handlers' = c.handlers
        /\ formatters' = c.formatters
  /\ last' = BlankLast
  /\ lastCall' = BlankCall
  /\ UNCHANGED <<loggers, gen, ctxs>>

\* _attach_handlers called directly on a logger of the registry, with a new Formatter
AttachHandlersCall ==
  /\ Idle
  /\ \E logger \in DOMAIN loggers, hs \in SeqsUpTo(1..Len(handlers), MaxCustom),
        unique \in BOOLEAN :
       LET fref == NewRef(formatters)
           fm1 == [x \in DOMAIN formatters \cup {fref} |->
                     IF x = fref THEN [fmt |-> MessageOnlyFormat, datefmt |-> NoneStr]
                     ELSE formatters[x]]
           lg == HeapLoggers(loggers)
           ls == HeapLists(loggers)
           par == Parent(lg, logger)
           att == AttachHandlers(lg, ls, handlers, logger, hs, DEBUG, fref, unique)
           rec == [BlankLast EXCEPT
                     !.op = "_attach_handlers", !.target = logger, !.unique = unique,
                     !.log_level = PyInt(DEBUG), !.level = DEBUG,
                     !.handlers = hs, !.formatter = fref,
                     !.pre = [loggers |-> loggers, handlers |-> handlers,
                              formatters |-> formatters],
                     !.before = ls[lg[logger].handlers],
                     !.hasParent = (par # NoLogger),
                     !.parentBefore = IF par = NoLogger THEN <<>>
                                      ELSE ls[lg[par].handlers],
                     !.result = IF att.ok THEN "ok" ELSE "AttributeError",
                     !.afterAttach = att.lists[lg[logger].handlers],
                     !.refBefore = lg[logger].handlers,
                     !.refAfterAttach = lg[logger].handlers,
                     !.refAfter = lg[logger].handlers]
       IN Commit([loggers |-> FromHeap(lg, att.lists), handlers |-> att.handlers,
                  formatters |-> fm1, last |-> rec])
  /\ UNCHANGED <<gen, ctxs, lastCall>>

\* _check_unique_handler_types called directly on a logger of the registry
CheckUniqueHandlerTypesCall ==
  /\ Idle
  /\ \E logger \in DOMAIN loggers, unique \in BOOLEAN :
       LET lg == HeapLoggers(loggers)
           ls == HeapLists(loggers)
           par == Parent(lg, logger)
           col == CheckUniqueHandlerTypes(lg, ls, logger, unique)
           rec == [BlankLast EXCEPT
                     !.op = "_check_unique_handler_types", !.target = logger,
                     !.unique = unique,
                     !.pre = [loggers |-> loggers, handlers |-> handlers,
                              formatters |-> formatters],
                     !.before = ls[lg[logger].handlers],
                     !.hasParent = (par # NoLogger),
                     !.parentBefore = IF par = NoLogger THEN <<>>
                                      ELSE ls[lg[par].handlers],
                     !.result = IF col.ok THEN "ok" ELSE "AttributeError",
                     !.afterAttach = ls[lg[logger].handlers],
                     !.refBefore = lg[logger].handlers,
                     !.refAfterAttach = lg[logger].handlers,
                     !.refAfter = col.loggers[logger].handlers]
       IN Commit([loggers |-> FromHeap(col.loggers, col.lists), handlers |-> handlers,
                  formatters |-> formatters, last |-> rec])
  /\ UNCHANGED <<gen, ctxs, lastCall>>

\* ------------------------------------------------------ LogContextGenerators
\* Logger.getEffectiveLevel: the first level set on the way up to the root
RECURSIVE EffectiveLevel(_, _)
EffectiveLevel(L, name) ==
  IF name = NoLogger THEN NOTSET
  ELSE IF L[name].level # NOTSET THEN L[name].level
  ELSE EffectiveLevel(L, Parent(L, name))

\* Logger.isEnabledFor(level)
IsEnabledFor(L, name, level) == level >= EffectiveLevel(L, name)

Methods == {"exception", "error", "warning", "info", "debug"}

\* the level each Logger method logs at; exception logs at ERROR with exc_info
MethodLevel(method) ==
  CASE method = "exception" -> ERROR
    [] method = "error" -> ERROR
    [] method = "warning" -> WARNING
    [] method = "info" -> INFO
    [] method = "debug" -> DEBUG

\* self.logger.<method>(msg, extra=kwargs): the records the logger creates
LoggerLog(L, name, method, msg, extra) ==
  IF IsEnabledFor(L, name, MethodLevel(method))
  THEN <<[name |-> name, levelno |-> MethodLevel(method), msg |-> msg,
          extra |-> extra, exc_info |-> (method = "exception")]>>
  ELSE <<>>

\* CapturedExtra with a fault: one mapping shared by all contexts, the last bound
CapturedExtraShared(cs, i) == cs[Len(cs)]

\* the kwargs mapping the lambdas of context i close over
CapturedExtra(cs, i) == cs[i]

\* a mapping of extra fields is a set of <<key, value>> pairs
ExtraInputs ==
  {{}, {<<"request_id", "abc-123">>}, {<<"request_id", "xyz">>, <<"user", "u1">>}}

MessageInputs == {"processing", "hello from context"}

\* LogContextGenerators(**kwargs): self.logger = log_factory(**kwargs);
\* no generator is constructed when log_factory raises
GeneratorInit ==
  /\ Idle
  /\ gen = NoLogger
  /\ LogFactoryOver(GeneratorInputs)
  /\ gen' = IF last'.result = "ok" THEN last'.target ELSE NoLogger
  /\ UNCHANGED <<ctxs, lastCall>>

\* log_factory called again by the application, for the same or another level
LogFactoryAgain ==
  /\ Idle
  /\ gen # NoLogger
  /\ LogFactoryOver(GeneratorInputs)
  /\ UNCHANGED <<gen, ctxs, lastCall>>

\* gen.get_logger_for_context(**kwargs)
GetLoggerForContext ==
  /\ Idle
  /\ gen # NoLogger
  /\ Len(ctxs) < MaxContexts
  /\ \E kwargs \in ExtraInputs : ctxs' = Append(ctxs, kwargs)
  /\ UNCHANGED <<loggers, handlers, formatters, last, gen, lastCall>>

\* ctx.<method>(msg) on one of the contexts minted
ContextCall ==
  /\ Idle
  /\ \E i \in DOMAIN ctxs, method \in Methods, msg \in MessageInputs :
       lastCall' = [ctx |-> i, method |-> method, msg |-> msg,
                    records |-> LoggerLog(loggers, gen, method, msg,
                                          CapturedExtra(ctxs, i))]
  /\ UNCHANGED <<loggers, handlers, formatters, last, gen, ctxs>>

\* ----------------------------------------------------------- specification
Init ==
  /\ loggers = (RootName :> [level |-> WARNING, handlers |-> <<>>])
  /\ handlers = <<>>
  /\ formatters = <<>>
  /\ last = BlankLast
  /\ gen = NoLogger
  /\ ctxs = <<>>
  /\ lastCall = BlankCall

\* attachment and deduplication
Next ==
  \/ LogFactory
  \/ CreateHandler
  \/ AttachHandlersCall
  \/ CheckUniqueHandlerTypesCall
  \/ Resume

Spec == Init /\ [][Next]_vars

\* validation, formatter selection and the handler builder
NextFormats ==
  \/ LogFactoryFormats
  \/ CreateHandler
  \/ Resume

SpecFormats == Init /\ [][NextFormats]_vars

\* the context generator
NextContexts ==
  \/ GeneratorInit
  \/ LogFactoryAgain
  \/ GetLoggerForContext
  \/ ContextCall
  \/ Resume

SpecContexts == Init /\ [][NextContexts]_vars

\* ------------------------------------------------------------------ claims
\* The formulas read the record of the call that has just returned (last,
\* lastCall) against the state the call left.

TypeOf(h) == handlers[h].type

TypesOf(seq) == {TypeOf(seq[i]) : i \in DOMAIN seq}

AtMostOnePerType(seq) ==
  \A t \in HandlerTypes : Cardinality({i \in DOMAIN seq : TypeOf(seq[i]) = t}) <= 1

\* the attach step ran to completion, called directly or by log_factory
AttachRan == last.op \in {"_attach_handlers", "log_factory"} /\ last.result = "ok"

\* the collapse step ran to completion, called directly or by log_factory
CollapseRan ==
  last.op \in {"_check_unique_handler_types", "log_factory"} /\ last.result = "ok"

\* P of the attach step: the exact types on the target or on its immediate parent
PresentTypes == TypesOf(last.before) \cup TypesOf(last.parentBefore)

NotSkipped(h) == ~(last.unique /\ TypeOf(h) \in PresentTypes)

NonSkippedHandlers == SelectSeq(last.handlers, NotSkipped)

\* s appended to acc, leaving out what acc already holds
RECURSIVE AppendNew(_, _)
AppendNew(acc, s) ==
  IF s = <<>> THEN acc
  ELSE AppendNew(IF Head(s) \in SeqRange(acc) THEN acc ELSE Append(acc, Head(s)), Tail(s))

IsPrefix(a, b) == Len(a) <= Len(b) /\ \A i \in DOMAIN a : a[i] = b[i]

\* C1: with deduplication enabled, a log_factory call on a logger that holds at
\* most one handler of each type leaves it with at most one handler of each
\* type, whatever the call passes (custom handlers included).
C1_AtMostOnePerType ==
  (last.op = "log_factory" /\ last.result = "ok" /\ last.unique
   /\ AtMostOnePerType(last.before))
    => AtMostOnePerType(loggers[last.target].handlers)

\* C4 as stated: after the attach step the list object that was the logger's
\* handler list has the length and the identity it had before the call.
C4_ListUnchangedInLength ==
  AttachRan =>
    /\ last.refAfterAttach = last.refBefore
    /\ Len(last.afterAttach) = Len(last.before)

\* C4 as amended: the attach step keeps the logger's list object, keeps the
\* items it held, in order, at its front, and appends nothing but handlers it
\* was given: no handler of the parent gets in by being read.
C4_ListOnlyAppendedTo ==
  AttachRan =>
    /\ last.refAfterAttach = last.refBefore
    /\ IsPrefix(last.before, last.afterAttach)
    /\ \A i \in DOMAIN last.afterAttach :
         i > Len(last.before) => last.afterAttach[i] \in SeqRange(last.handlers)
    /\ \A h \in SeqRange(last.parentBefore) :
         h \in SeqRange(last.afterAttach)
           => h \in SeqRange(last.before) \cup SeqRange(last.handlers)

\* C4 witness: a logger whose parent holds a handler gets a new handler
\* attached, and the parent's handler is not in its list.
C4_Witness ==
  /\ last.op = "_attach_handlers" /\ last.result = "ok"
  /\ last.parentBefore # <<>>
  /\ Len(last.afterAttach) = Len(last.before) + 1
  /\ SeqRange(last.parentBefore) \cap SeqRange(last.afterAttach) = {}

\* C8: on the root logger (no parent) attach and collapse complete without
\* error for either value of the flag; attach attaches every non-skipped
\* handler, collapse returns the logger with its list as it was.
C8_RootLoggerNoError ==
  (last.target = RootName
   /\ last.op \in {"_attach_handlers", "_check_unique_handler_types"}) =>
    /\ ~last.hasParent
    /\ last.result = "ok"
    /\ last.op = "_attach_handlers" =>
         /\ \A i \in DOMAIN last.handlers :
              NotSkipped(last.handlers[i])
                => last.handlers[i] \in SeqRange(loggers[RootName].handlers)
         /\ IsPrefix(last.before, loggers[RootName].handlers)
    /\ last.op = "_check_unique_handler_types" =>
         /\ loggers[RootName].handlers = last.before
         /\ last.refAfter = last.refBefore

\* C8 witness: attach on the root logger with deduplication enabled attached a handler.
C8_Witness ==
  /\ last.op = "_attach_handlers" /\ last.target = RootName
  /\ last.unique /\ last.result = "ok"
  /\ Len(last.afterAttach) > Len(last.before)

\* C9 as stated: the list after the attach step is the list before it followed
\* by every non-skipped new handler, in the given order.
C9_AllNonSkippedAppended ==
  AttachRan => last.afterAttach = last.before \o NonSkippedHandlers

\* C9 as amended: the list after the attach step is the list before it followed
\* by the non-skipped new handlers that are not yet in the list, each once, in
\* the given order; a handler is skipped iff deduplication is enabled and its
\* exact type is on the target or on its immediate parent.
C9_NonSkippedAppendedOnce ==
  AttachRan => last.afterAttach = AppendNew(last.before, NonSkippedHandlers)

\* C9 witness: deduplication is enabled, the parent holds a handler of one
\* type, and a new handler of a subtype of it is attached while one of the
\* parent's own type is skipped.
C9_Witness ==
  /\ AttachRan /\ last.unique /\ last.hasParent
  /\ \E i, j \in DOMAIN last.handlers :
       /\ ~NotSkipped(last.handlers[i])
       /\ NotSkipped(last.handlers[j])
       /\ last.handlers[j] \notin SeqRange(last.before)
       /\ \E t \in TypesOf(last.parentBefore) :
            t # TypeOf(last.handlers[j]) /\ IsSubclass(TypeOf(last.handlers[j]), t)
  /\ Len(last.afterAttach) = Len(last.before) + 1

\* the collapse condition: flag set, a parent, and the same handler instances
\* in the same order as the parent's list
CollapseCondition ==
  /\ last.unique
  /\ last.hasParent
  /\ Len(last.afterAttach) = Len(last.parentBefore)
  /\ \A i \in DOMAIN last.afterAttach : last.afterAttach[i] = last.parentBefore[i]

\* C10: the collapse step gives the logger a new empty list iff deduplication
\* is enabled, the logger has a parent and its list equals the parent's as a
\* sequence; otherwise list and list object are left as they were.  So after a
\* log_factory call with deduplication on a logger with a parent, the logger's
\* list is never a non-empty sequence equal to its parent's.
C10_CollapseIffEqualToParent ==
  CollapseRan =>
    /\ IF CollapseCondition
       THEN loggers[last.target].handlers = <<>> /\ last.refAfter # last.refAfterAttach
       ELSE /\ loggers[last.target].handlers = last.afterAttach
            /\ last.refAfter = last.refAfterAttach
    /\ (last.op = "log_factory" /\ last.unique /\ last.hasParent) =>
         ~(/\ loggers[last.target].handlers # <<>>
           /\ loggers[last.target].handlers
                = loggers[Parent(loggers, last.target)].handlers)

\* C10 witness: a log_factory call found the logger's non-empty list equal to
\* its parent's and cleared it.
C10_Witness ==
  /\ last.op = "log_factory" /\ last.result = "ok"
  /\ CollapseCondition
  /\ last.afterAttach # <<>>
  /\ loggers[last.target].handlers = <<>>

\* the loggers of the registry other than the one the call names
OtherLoggers == DOMAIN last.pre.loggers \ {last.target}

\* C11: a log_factory call for logger N changes the handler list and the level
\* of N only: every other logger of the registry, N's parent included, has the
\* list and the level it had before the call, and no logger but N is added;
\* when the collapse step empties N's list, the parent's list, equal to it
\* until then, is left as it was.
C11_OnlyNamedLoggerChanges ==
  last.op = "log_factory" =>
    /\ DOMAIN last.pre.loggers \subseteq DOMAIN loggers
    /\ DOMAIN loggers \subseteq DOMAIN last.pre.loggers \cup {last.target}
    /\ \A n \in OtherLoggers : loggers[n] = last.pre.loggers[n]
    /\ (last.result = "ok" /\ last.hasParent) =>
         loggers[Parent(loggers, last.target)].handlers = last.parentBefore
    /\ (last.result = "ok" /\ CollapseCondition) =>
         loggers[last.target].handlers = <<>>

\* C11 witness: a log_factory call on "a.b" found its non-empty list equal to
\* the list of its parent "a" and emptied it; "a" and the root logger exist
\* and "a" still holds the handlers.
C11_Witness ==
  /\ last.op = "log_factory" /\ last.result = "ok"
  /\ last.target = NameAB
  /\ Parent(loggers, NameAB) = NameA
  /\ RootName \in OtherLoggers
  /\ CollapseCondition
  /\ last.parentBefore # <<>>
  /\ last.pre.loggers[NameAB].handlers = last.parentBefore
  /\ loggers[NameAB].handlers = <<>>
  /\ loggers[NameA].handlers = last.parentBefore

\* a name that is None, not a string, empty or made of whitespace only
NameMissingOrBlank(v) == v.kind # "str" \/ \A i \in DOMAIN v.s : v.s[i] \in Whitespace

\* C2: log_factory with a name that is None, not a string, empty or
\* whitespace-only fails with the ValueError and leaves the registry, every
\* logger's handler list and level, and the handler and formatter objects as
\* they were: nothing is built, looked up or changed.
C2_InvalidNameRejectedWithoutEffect ==
  (last.op = "log_factory" /\ NameMissingOrBlank(last.name)) =>
    /\ last.result = "ValueError"
    /\ loggers = last.pre.loggers
    /\ handlers = last.pre.handlers
    /\ formatters = last.pre.formatters
    /\ last.built = <<>> /\ last.formatter = 0

\* C2 witness: a whitespace-only name is rejected in a state where a logger with
\* an attached handler exists.
C2_Witness ==
  /\ last.op = "log_factory" /\ last.result = "ValueError"
  /\ last.name = PyStr(<<" ", "\t", " ">>)
  /\ NameA \in DOMAIN loggers
  /\ loggers[NameA].handlers # <<>>

\* a log file is configured / a time format is supplied: a non-empty string
FileConfigured == last.log_file # NoneStr /\ Len(last.log_file) > 0

TimeFormatSupplied == last.time_format # NoneStr /\ Len(last.time_format) > 0

\* the time format the precedence rules select
ExpectedTimeFormat ==
  IF FileConfigured /\ last.rotate THEN <<"%", "H", ":", "%", "M", ":", "%", "S">>
  ELSE IF TimeFormatSupplied THEN last.time_format
  ELSE NoneStr

\* the handlers the call attached: in the list after the attach step, not before
AttachedByCall == SeqRange(last.afterAttach) \ SeqRange(last.before)

\* C3: the formatter of a log_factory call has the time-only format when a file
\* is configured and rotation is requested, else the supplied time format, else
\* the default; every handler the call attached carries that formatter.
C3_TimeFormatPrecedence ==
  (last.op = "log_factory" /\ last.result = "ok") =>
    /\ formatters[last.formatter].datefmt = ExpectedTimeFormat
    /\ \A h \in AttachedByCall :
         /\ handlers[h].formatter # 0
         /\ formatters[handlers[h].formatter].datefmt = ExpectedTimeFormat

\* C3 witness: rotation requested, no file, a time format supplied: the handler
\* attached carries the supplied format, not the time-only one.
C3_Witness ==
  /\ last.op = "log_factory" /\ last.result = "ok"
  /\ last.rotate /\ ~FileConfigured /\ TimeFormatSupplied
  /\ AttachedByCall # {}
  /\ \A h \in AttachedByCall :
       formatters[handlers[h].formatter].datefmt = last.time_format

\* the level the call's log_level argument stands for
ExpectedLevel ==
  IF last.log_level.kind = "int" THEN last.log_level.n
  ELSE IF last.log_level.s = <<" ", "w", "a", "r", "n", "i", "n", "g">> THEN WARNING
  ELSE -1

\* C6 as stated: after a log_factory call every handler handed to the attach
\* step has the call's formatter and the call's level.
C6_EveryHandlerConfigured ==
  (last.op = "log_factory" /\ last.result = "ok") =>
    \A i \in DOMAIN last.handlers :
      /\ handlers[last.handlers[i]].formatter = last.formatter
      /\ handlers[last.handlers[i]].level = ExpectedLevel

\* C6 as amended: after a log_factory call every handler handed to the attach
\* step that deduplication did not skip has the call's one formatter and the
\* call's normalized level.
C6_NonSkippedHandlersConfigured ==
  (last.op = "log_factory" /\ last.result = "ok") =>
    \A i \in DOMAIN last.handlers :
      NotSkipped(last.handlers[i]) =>
        /\ handlers[last.handlers[i]].formatter = last.formatter
        /\ handlers[last.handlers[i]].level = ExpectedLevel

\* C6 witness: a built-in handler and a custom handler that carried another
\* formatter and level both end with the formatter and level of the call.
C6_Witness ==
  /\ last.op = "log_factory" /\ last.result = "ok"
  /\ Len(last.built) = 1 /\ Len(last.handlers) = 2
  /\ last.level = WARNING
  /\ LET c == last.handlers[2]
     IN /\ last.pre.handlers[c].formatter # 0
        /\ last.pre.handlers[c].level = DEBUG
  /\ \A i \in DOMAIN last.handlers :
       /\ NotSkipped(last.handlers[i])
       /\ handlers[last.handlers[i]].formatter = last.formatter
       /\ handlers[last.handlers[i]].level = WARNING

\* the types of the handlers the builder returned
BuiltTypes == [i \in DOMAIN last.built |-> TypeOf(last.built[i])]

\* C7: the builder returns new handler objects: a console stream handler first
\* iff to_console, then one file handler iff a file path is given, the
\* midnight-rotating one iff rotate_file_by_day; nothing otherwise.
C7_BuilderSequence ==
  (last.op = "log_factory" /\ last.result = "ok") =>
    /\ Len(last.built) = (IF last.to_console THEN 1 ELSE 0)
                         + (IF FileConfigured THEN 1 ELSE 0)
    /\ last.to_console => BuiltTypes[1] = StreamHandler
    /\ FileConfigured =>
         BuiltTypes[Len(last.built)] =
           (IF last.rotate THEN TimedRotatingFileHandler ELSE FileHandler)
    /\ \A i \in DOMAIN last.built :
         /\ last.built[i] \notin DOMAIN last.pre.handlers
         /\ \A j \in DOMAIN last.built : j # i => last.built[j] # last.built[i]

\* C7 witness: console and a rotating file: a stream handler, then the rotating handler.
C7_Witness ==
  /\ last.op = "log_factory" /\ last.result = "ok"
  /\ last.to_console /\ FileConfigured /\ last.rotate
  /\ BuiltTypes = <<StreamHandler, TimedRotatingFileHandler>>

\* the severity of each of the five callables
Severity ==
  [exception |-> 40, error |-> 40, warning |-> 30, info |-> 20, debug |-> 10]

\* a record of the owned logger, of the callable's severity, with the message
\* as given and the mapping the context was created with
RecordAsCalled(r) ==
  /\ r.name = gen
  /\ r.levelno = Severity[lastCall.method]
  /\ r.msg = lastCall.msg
  /\ r.extra = ctxs[lastCall.ctx]
  /\ r.exc_info = (lastCall.method = "exception")

====
